---- MODULE Spec2Model ----
(***************************************************************************)
(* Storefront presentation logic of naxxivo: the ProductCard component     *)
(* (src/components/ProductCard.tsx) and the Home screen                    *)
(* (src/components/Home.tsx).                                              *)
(*                                                                         *)
(* Four independent state machines are described, one per group of state  *)
(* the components keep:                                                    *)
(*   SpecCart  the add-to-cart button of each card, its justAdded flag and *)
(*             the setTimeout callbacks that clear it;                     *)
(*   SpecWish  the wishlist toggle of each card;                           *)
(*   SpecHome  the product grid of Home: queries, filter, render path;     *)
(*   SpecDisc  the discount computation of a card.                         *)
(***************************************************************************)
EXTENDS Integers, Sequences, FiniteSets

VARIABLES
    \* ---- ProductCard, add to cart (one entry per card instance) ----
    inFlight,       \* card -> number of add-to-cart mutations issued and not settled
    justAdded,      \* card -> the useState flag of ProductCard.tsx:32
    timers,         \* card -> pending setTimeout callbacks, ms left, in scheduling order
    sinceSuccess,   \* card -> ms since the card's latest onSuccess, -1 if none (history)
    cartItems,      \* product ids the cart snapshot of useCart() holds
    \* ---- ProductCard, wishlist toggle ----
    session,        \* TRUE iff useAuth() gives a session
    wishlist,       \* <<>> when the wishlist is undefined, else <<set of product ids>>
    addMutation,    \* card -> product ids of the add mutations in flight
    removeMutation, \* card -> product ids of the remove mutations in flight
    toggled,        \* card -> parity of the runs of handleToggleWishlist (history)
    \* ---- Home ----
    productsQuery,   \* [status, data] of useQuery(['products'])
    categoriesQuery, \* [status, data] of useQuery(['categories'])
    activeCategory,  \* useState('All')
    \* ---- ProductCard, discount ----
    product,        \* the product prop: [price, original_price (<<>> when null, else <<n>>)]
    card            \* <<>> before the card renders, else <<what it shows for product>>

cartVars == <<inFlight, justAdded, timers, sinceSuccess, cartItems>>

wishVars == <<session, wishlist, addMutation, removeMutation, toggled>>

homeVars == <<productsQuery, categoriesQuery, activeCategory>>

discVars == <<product, card>>

vars == <<cartVars, wishVars, homeVars, discVars>>

\* ------------------------------------------------------------------------
\* Bounds of the model
\* ------------------------------------------------------------------------
TicksPerWindow == 4     \* time advances in steps of RevertMs / TicksPerWindow
MaxTimers == 2          \* pending revert callbacks kept per card
MaxProducts == 3        \* length of the product list a load returns
MaxPrice == 40          \* prices are whole numbers 0..MaxPrice

\* ------------------------------------------------------------------------
\* ProductCard: add to cart
\* ------------------------------------------------------------------------
\* Home renders one card per product, keyed by product.id.
Cards == {"p1", "p2"}

\* setTimeout(..., 2000)
RevertMs == 2000

Step == RevertMs \div TicksPerWindow

\* addToCartMutation.isPending
isPending(c) == inFlight[c] > 0

\* const alreadyInCart = isItemInCart(product.id)
alreadyInCart(c) == c \in cartItems

\* Variants of the disabled condition that drop one of its two tests.
AddDisabledNoCartCheck(c) == isPending(c)

AddDisabledNoPendingCheck(c) == alreadyInCart(c)

\* disabled={addToCartMutation.isPending || alreadyInCart}
AddDisabled(c) == isPending(c) \/ alreadyInCart(c)

\* A variant of renderButtonContent that tests alreadyInCart first.
renderButtonContentCartFirst(c) ==
    IF alreadyInCart(c) THEN "In Cart"
    ELSE IF isPending(c) THEN "Spinner"
    ELSE IF justAdded[c] THEN "Added"
    ELSE "Add to Cart"

\* renderButtonContent
renderButtonContent(c) ==
    IF isPending(c) THEN "Spinner"
    ELSE IF justAdded[c] THEN "Added"
    ELSE IF alreadyInCart(c) THEN "In Cart"
    ELSE "Add to Cart"

\* handleAddToCart: addToCartMutation.mutate(product.id, {onSuccess}).
\* The handler runs only when the button is not disabled.
handleAddToCart(c) ==
    /\ ~AddDisabled(c)
    /\ inFlight' = [inFlight EXCEPT ![c] = @ + 1]
    /\ UNCHANGED <<justAdded, timers, sinceSuccess, cartItems>>
    /\ UNCHANGED <<wishVars, homeVars, discVars>>

\* A variant of onSuccess in which the flag is one state shared by all cards.
onSuccessShared(c) ==
    /\ inFlight[c] > 0
    /\ Len(timers[c]) < MaxTimers
    /\ inFlight' = [inFlight EXCEPT ![c] = @ - 1]
    /\ justAdded' = [d \in Cards |-> TRUE]
    /\ timers' = [timers EXCEPT ![c] = Append(@, RevertMs)]
    /\ sinceSuccess' = [sinceSuccess EXCEPT ![c] = 0]
    /\ UNCHANGED cartItems
    /\ UNCHANGED <<wishVars, homeVars, discVars>>

\* onSuccess: setJustAdded(true); setTimeout(() => setJustAdded(false), 2000)
onSuccess(c) ==
    /\ inFlight[c] > 0
    /\ Len(timers[c]) < MaxTimers
    /\ inFlight' = [inFlight EXCEPT ![c] = @ - 1]
    /\ justAdded' = [justAdded EXCEPT ![c] = TRUE]
    /\ timers' = [timers EXCEPT ![c] = Append(@, RevertMs)]
    /\ sinceSuccess' = [sinceSuccess EXCEPT ![c] = 0]
    /\ UNCHANGED cartItems
    /\ UNCHANGED <<wishVars, homeVars, discVars>>

\* The mutation fails: no onError is passed, the mutation is no longer pending.
onError(c) ==
    /\ inFlight[c] > 0
    /\ inFlight' = [inFlight EXCEPT ![c] = @ - 1]
    /\ UNCHANGED <<justAdded, timers, sinceSuccess, cartItems>>
    /\ UNCHANGED <<wishVars, homeVars, discVars>>

\* () => setJustAdded(false), run by the timer that is due.
revertTimerFires(c) ==
    /\ timers[c] # <<>>
    /\ Head(timers[c]) = 0
    /\ justAdded' = [justAdded EXCEPT ![c] = FALSE]
    /\ timers' = [timers EXCEPT ![c] = Tail(@)]
    /\ UNCHANGED <<inFlight, sinceSuccess, cartItems>>
    /\ UNCHANGED <<wishVars, homeVars, discVars>>

\* The cart snapshot changes: a refetch after an add, or another surface.
cartItemAppears(p) ==
    /\ p \notin cartItems
    /\ cartItems' = cartItems \cup {p}
    /\ UNCHANGED <<inFlight, justAdded, timers, sinceSuccess>>
    /\ UNCHANGED <<wishVars, homeVars, discVars>>

cartItemDisappears(p) ==
    /\ p \in cartItems
    /\ cartItems' = cartItems \ {p}
    /\ UNCHANGED <<inFlight, justAdded, timers, sinceSuccess>>
    /\ UNCHANGED <<wishVars, homeVars, discVars>>

\* Step ms pass. A callback that is due runs before time moves on.
Elapse(s) == [i \in DOMAIN s |-> s[i] - Step]

Aged(t) == IF t < 0 THEN t ELSE IF t > RevertMs THEN t ELSE t + Step

timePasses ==
    /\ \A c \in Cards : \A i \in DOMAIN timers[c] : timers[c][i] >= Step
    /\ timers' = [c \in Cards |-> Elapse(timers[c])]
    /\ sinceSuccess' = [c \in Cards |-> Aged(sinceSuccess[c])]
    /\ UNCHANGED <<inFlight, justAdded, cartItems>>
    /\ UNCHANGED <<wishVars, homeVars, discVars>>

InitCartVars ==
    /\ inFlight = [c \in Cards |-> 0]
    /\ justAdded = [c \in Cards |-> FALSE]
    /\ timers = [c \in Cards |-> <<>>]
    /\ sinceSuccess = [c \in Cards |-> -1]
    /\ cartItems \in SUBSET Cards

CartStep ==
    \/ \E c \in Cards : handleAddToCart(c)
    \/ \E c \in Cards : onSuccess(c)
    \/ \E c \in Cards : onError(c)
    \/ \E c \in Cards : revertTimerFires(c)
    \/ \E p \in Cards : cartItemAppears(p)
    \/ \E p \in Cards : cartItemDisappears(p)
    \/ timePasses

\* ------------------------------------------------------------------------
\* ProductCard: wishlist toggle
\* ------------------------------------------------------------------------
\* const isWishlisted = wishlist?.some(item => item.product_id === product.id) ?? false
isWishlisted(c) == IF wishlist = <<>> THEN FALSE ELSE c \in wishlist[1]

\* disabled={addMutation.isPending || removeMutation.isPending}
WishDisabled(c) == addMutation[c] # <<>> \/ removeMutation[c] # <<>>

\* A variant of handleToggleWishlist without "if (!session) return".
handleToggleWishlistNoSessionCheck(c) ==
    /\ ~WishDisabled(c)
    /\ toggled' = [toggled EXCEPT ![c] = 1 - @]
    /\ IF isWishlisted(c)
          THEN /\ removeMutation' = [removeMutation EXCEPT ![c] = Append(@, c)]
               /\ UNCHANGED addMutation
          ELSE /\ addMutation' = [addMutation EXCEPT ![c] = Append(@, c)]
               /\ UNCHANGED removeMutation
    /\ UNCHANGED <<session, wishlist>>
    /\ UNCHANGED <<cartVars, homeVars, discVars>>

\* handleToggleWishlist. The handler runs only when the button is not disabled.
handleToggleWishlist(c) ==
    /\ ~WishDisabled(c)
    /\ toggled' = [toggled EXCEPT ![c] = 1 - @]
    /\ IF ~session
          THEN UNCHANGED <<addMutation, removeMutation>>
          ELSE IF isWishlisted(c)
                 THEN /\ removeMutation' = [removeMutation EXCEPT ![c] = Append(@, c)]
                      /\ UNCHANGED addMutation
                 ELSE /\ addMutation' = [addMutation EXCEPT ![c] = Append(@, c)]
                      /\ UNCHANGED removeMutation
    /\ UNCHANGED <<session, wishlist>>
    /\ UNCHANGED <<cartVars, homeVars, discVars>>

\* A wishlist mutation settles (success or error): it is no longer pending.
addMutationSettles(c) ==
    /\ addMutation[c] # <<>>
    /\ addMutation' = [addMutation EXCEPT ![c] = Tail(@)]
    /\ UNCHANGED <<session, wishlist, removeMutation, toggled>>
    /\ UNCHANGED <<cartVars, homeVars, discVars>>

removeMutationSettles(c) ==
    /\ removeMutation[c] # <<>>
    /\ removeMutation' = [removeMutation EXCEPT ![c] = Tail(@)]
    /\ UNCHANGED <<session, wishlist, addMutation, toggled>>
    /\ UNCHANGED <<cartVars, homeVars, discVars>>

\* The wishlist snapshot of useWishlist() changes.
wishlistChanges(w) ==
    /\ w # wishlist
    /\ wishlist' = w
    /\ UNCHANGED <<session, addMutation, removeMutation, toggled>>
    /\ UNCHANGED <<cartVars, homeVars, discVars>>

\* The user signs in or out.
sessionChanges ==
    /\ session' = ~session
    /\ UNCHANGED <<wishlist, addMutation, removeMutation, toggled>>
    /\ UNCHANGED <<cartVars, homeVars, discVars>>

Wishlists == {<<>>} \cup {<<w>> : w \in SUBSET Cards}

InitWishVars ==
    /\ session \in BOOLEAN
    /\ wishlist \in Wishlists
    /\ addMutation = [c \in Cards |-> <<>>]
    /\ removeMutation = [c \in Cards |-> <<>>]
    /\ toggled = [c \in Cards |-> 0]

WishStep ==
    \/ \E c \in Cards : handleToggleWishlist(c)
    \/ \E c \in Cards : addMutationSettles(c)
    \/ \E c \in Cards : removeMutationSettles(c)
    \/ \E w \in Wishlists : wishlistChanges(w)
    \/ sessionChanges

\* ------------------------------------------------------------------------
\* Home: queries, category filter, product grid
\* ------------------------------------------------------------------------
\* A product as Home reads it: id and categories, the joined categories(name)
\* (<<>> when the product has no category, else <<name>>).
Product(id, cat) == [id |-> id, categories |-> cat]

Catalog ==
    { Product("p1", <<"Shoes">>), Product("p2", <<"Bags">>),
      Product("p3", <<"shoes">>), Product("p4", <<>>),
      Product("p5", <<"Shoes">>) }

RECURSIVE ListsOver(_, _)
ListsOver(S, n) ==
    IF n = 0 THEN {<<>>}
    ELSE LET shorter == ListsOver(S, n - 1)
         IN  shorter \cup
             {Append(l, x) : l \in {m \in shorter : Len(m) = n - 1}, x \in S}

NoRepeat(l) == \A i, j \in DOMAIN l : l[i].id = l[j].id => i = j

\* What fetchProducts can return.
ProductLists == {l \in ListsOver(Catalog, MaxProducts) : NoRepeat(l)}

\* What fetchCategories can return (names, ascending).
CategoryLists ==
    { <<>>, <<"Bags", "Shoes">>, <<"Bags", "Hats", "Shoes", "shoes">> }

ProductsErrorMessage == "Failed to load products. Please try again later."

CategoriesErrorMessage == "Failed to load categories."

isLoadingProducts == productsQuery.status = "pending"

productsError == productsQuery.status = "error"

isLoadingCategories == categoriesQuery.status = "pending"

categoriesError == categoriesQuery.status = "error"

\* data: products (<<>> when undefined, else <<list>>)
products == productsQuery.data

\* A variant of the filter predicate that ignores case.
CategoryMatchesFolded(p, name) ==
    LET fold(x) == IF x = "shoes" THEN "Shoes" ELSE x
    IN  p.categories # <<>> /\ fold(p.categories[1]) = fold(name)

\* product.categories?.name === activeCategory
CategoryMatches(p, name) == p.categories # <<>> /\ p.categories[1] = name

\* Array.prototype.filter with the predicate of Home.tsx:206
RECURSIVE filter(_, _)
filter(l, name) ==
    IF l = <<>> THEN <<>>
    ELSE IF CategoryMatches(Head(l), name)
           THEN <<Head(l)>> \o filter(Tail(l), name)
           ELSE filter(Tail(l), name)

\* const filteredProducts = useMemo(...)
filteredProducts ==
    IF products = <<>> THEN <<>>
    ELSE IF activeCategory = "All" THEN products[1]
    ELSE filter(products[1], activeCategory)

\* What renderProductGrid returns.
Rendered(kind, n, msg, cards) ==
    [kind |-> kind, skeletons |-> n, message |-> msg, cards |-> cards]

\* Array.from({ length: 8 }) in ProductGridSkeleton
SkeletonCount == 8

\* A variant of renderProductGrid without the categoriesError branch.
renderProductGridProductsOnly ==
    IF isLoadingProducts THEN Rendered("skeleton", SkeletonCount, "", <<>>)
    ELSE IF productsError THEN Rendered("error", 0, ProductsErrorMessage, <<>>)
    ELSE IF filteredProducts = <<>>
           THEN Rendered("empty", 0, "No products found in this category.", <<>>)
    ELSE Rendered("grid", 0, "", filteredProducts)

\* renderProductGrid
renderProductGrid ==
    IF isLoadingProducts THEN Rendered("skeleton", SkeletonCount, "", <<>>)
    ELSE IF productsError THEN Rendered("error", 0, ProductsErrorMessage, <<>>)
    ELSE IF categoriesError THEN Rendered("error", 0, CategoriesErrorMessage, <<>>)
    ELSE IF filteredProducts = <<>>
           THEN Rendered("empty", 0, "No products found in this category.", <<>>)
    ELSE Rendered("grid", 0, "", filteredProducts)

\* CategoriesNav: the names of allCategories, offered once categories are not loading.
allCategories ==
    {"All"} \cup
    (IF categoriesQuery.data = <<>> THEN {}
     ELSE {categoriesQuery.data[1][i] : i \in DOMAIN categoriesQuery.data[1]})

\* onSelectCategory={setActiveCategory}
setActiveCategory(name) ==
    /\ ~isLoadingCategories
    /\ name \in allCategories
    /\ activeCategory' = name
    /\ UNCHANGED <<productsQuery, categoriesQuery>>
    /\ UNCHANGED <<cartVars, wishVars, discVars>>

\* fetchProducts resolves or throws.
productsLoad(l) ==
    /\ isLoadingProducts
    /\ productsQuery' = [status |-> "success", data |-> <<l>>]
    /\ UNCHANGED <<categoriesQuery, activeCategory>>
    /\ UNCHANGED <<cartVars, wishVars, discVars>>

productsFail ==
    /\ isLoadingProducts
    /\ productsQuery' = [status |-> "error", data |-> <<>>]
    /\ UNCHANGED <<categoriesQuery, activeCategory>>
    /\ UNCHANGED <<cartVars, wishVars, discVars>>

\* fetchCategories resolves or throws.
categoriesLoad(l) ==
    /\ isLoadingCategories
    /\ categoriesQuery' = [status |-> "success", data |-> <<l>>]
    /\ UNCHANGED <<productsQuery, activeCategory>>
    /\ UNCHANGED <<cartVars, wishVars, discVars>>

categoriesFail ==
    /\ isLoadingCategories
    /\ categoriesQuery' = [status |-> "error", data |-> <<>>]
    /\ UNCHANGED <<productsQuery, activeCategory>>
    /\ UNCHANGED <<cartVars, wishVars, discVars>>

InitHomeVars ==
    /\ productsQuery = [status |-> "pending", data |-> <<>>]
    /\ categoriesQuery = [status |-> "pending", data |-> <<>>]
    /\ activeCategory = "All"

HomeStep ==
    \/ \E l \in ProductLists : productsLoad(l)
    \/ productsFail
    \/ \E l \in CategoryLists : categoriesLoad(l)
    \/ categoriesFail
    \/ \E name \in allCategories : setActiveCategory(name)

\* ------------------------------------------------------------------------
\* ProductCard: discount
\* ------------------------------------------------------------------------
\* JavaScript numbers are IEEE 754 doubles: 53 significand bits, results
\* rounded to nearest, ties to even. A positive double is kept as its
\* significand followed by one guard bit, 54 bits in three limbs of 18 bits
\* (most significant first), and the exponent of its leading bit: the value is
\* (sig[1] * Limb^2 + sig[2] * Limb + sig[3]) * 2^(exp - 53), sig[1] >= Limb / 2,
\* and the guard bit (the lowest bit of sig[3]) is 0.
Limb == 2 ^ 18

Double(sig, exp) == [sig |-> sig, exp |-> exp]

\* Round 54 bits and what follows them (sticky: something nonzero follows) to
\* 53 bits, to nearest, ties to even.
RoundToNearestEven(sig, sticky, exp) ==
    LET guard == sig[3] % 2
        odd == (sig[3] \div 2) % 2
        up == guard = 1 /\ (sticky \/ odd = 1)
        s3 == IF up THEN sig[3] + 1 ELSE sig[3] - guard
        s2 == sig[2] + (s3 \div Limb)
        s1 == sig[1] + (s2 \div Limb)
    IN  IF s1 = Limb THEN Double(<<Limb \div 2, 0, 0>>, exp + 1)
        ELSE Double(<<s1, s2 % Limb, s3 % Limb>>, exp)

\* Scale a and b by powers of two until b <= a < 2b; e is the exponent of a/b.
RECURSIVE Normalize(_, _, _)
Normalize(a, b, e) ==
    IF a < b THEN Normalize(2 * a, b, e - 1)
    ELSE IF a >= 2 * b THEN Normalize(a, 2 * b, e + 1)
    ELSE <<a, b, e>>

\* a / b for positive integers a and b, as the double division gives it:
\* long division, 18 bits at a time.
fdiv(a, b) ==
    LET n == Normalize(a, b, 0)
        d == n[2]
        t1 == n[1] * (Limb \div 2)
        t2 == (t1 % d) * Limb
        t3 == (t2 % d) * Limb
    IN  RoundToNearestEven(<<t1 \div d, t2 \div d, t3 \div d>>, (t3 % d) # 0, n[3])

\* x * 100 as the double multiplication gives it: the exact product, limb by
\* limb, shifted right until 54 bits are left, and rounded.
fmul100(x) ==
    LET t3 == x.sig[3] * 100
        t2 == (x.sig[2] * 100) + (t3 \div Limb)
        t1 == (x.sig[1] * 100) + (t2 \div Limb)
        p2 == t2 % Limb
        p3 == t3 % Limb
        s == IF t1 >= 128 * (Limb \div 2) THEN 7 ELSE 6
        out == 2 ^ s
        in == Limb \div out
    IN  RoundToNearestEven(
            << t1 \div out,
               ((t1 % out) * in) + (p2 \div out),
               ((p2 % out) * in) + (p3 \div out) >>,
            (p3 % out) # 0, x.exp + s)

\* Math.round of a double in [2^-53, 2^18): the nearest integer, a half rounding up.
MathRound(x) ==
    IF x.exp < -1 THEN 0
    ELSE IF x.exp = -1 THEN 1
    ELSE (x.sig[1] \div (2 ^ (17 - x.exp))) + ((x.sig[1] \div (2 ^ (16 - x.exp))) % 2)

\* The value of: product.original_price && product.original_price > product.price
hasDiscountValue(p) ==
    IF p.original_price = <<>> THEN "null"
    ELSE IF p.original_price[1] = 0 THEN "0"
    ELSE IF p.original_price[1] > p.price THEN "true"
    ELSE "false"

\* hasDiscount as a condition
hasDiscount(p) == hasDiscountValue(p) = "true"

\* Math.round(((original_price - price) / original_price) * 100), else 0
discountPercentage(p) ==
    IF hasDiscount(p)
      THEN MathRound(fmul100(fdiv(p.original_price[1] - p.price, p.original_price[1])))
      ELSE 0

\* {hasDiscount && (...)}: the element when hasDiscount is true, the text "0"
\* when it is the number 0, nothing when it is null or false.
Slot(p, kind, value) ==
    IF hasDiscountValue(p) = "true" THEN <<[kind |-> kind, value |-> value]>>
    ELSE IF hasDiscountValue(p) = "0" THEN <<[kind |-> "text", value |-> 0]>>
    ELSE <<>>

\* What the card shows of the discount: the "N% OFF" badge and the
\* struck-through original price.
renderCard(p) ==
    [ hasDiscount |-> hasDiscount(p),
      discountPercentage |-> discountPercentage(p),
      badge |-> Slot(p, "badge", discountPercentage(p)),
      strike |-> Slot(p, "strike", IF p.original_price = <<>> THEN 0
                                   ELSE p.original_price[1]) ]

Prices == 0..MaxPrice

Products ==
    [price : Prices, original_price : {<<>>} \cup {<<o>> : o \in Prices}]

\* The card renders its product.
cardRenders ==
    /\ card = <<>>
    /\ card' = <<renderCard(product)>>
    /\ UNCHANGED product
    /\ UNCHANGED <<cartVars, wishVars, homeVars>>

InitDiscVars ==
    /\ product \in Products
    /\ card = <<>>

MountedDisc ==
    /\ product = [price |-> 0, original_price |-> <<>>]
    /\ card = <<>>

DiscStep == cardRenders

\* ------------------------------------------------------------------------
\* Specifications
\* ------------------------------------------------------------------------
\* Each specification runs one of the machines; the state of the others stays
\* as it is when the components mount with an empty cart and no session.
MountedCart == InitCartVars /\ cartItems = {}

MountedWish == InitWishVars /\ ~session /\ wishlist = <<>>

InitCart == InitCartVars /\ MountedWish /\ InitHomeVars /\ MountedDisc

InitWish == MountedCart /\ InitWishVars /\ InitHomeVars /\ MountedDisc

InitHome == MountedCart /\ MountedWish /\ InitHomeVars /\ MountedDisc

InitDisc == MountedCart /\ MountedWish /\ InitHomeVars /\ InitDiscVars

SpecCart == InitCart /\ [][CartStep]_vars

SpecWish == InitWish /\ [][WishStep]_vars

SpecHome == InitHome /\ [][HomeStep]_vars

SpecDisc == InitDisc /\ [][DiscStep]_vars

\* ------------------------------------------------------------------------
\* Properties of the add-to-cart button
\* ------------------------------------------------------------------------
\* A step in which card c's onSuccess callback runs.
SuccessStep(c) ==
    /\ inFlight'[c] = inFlight[c] - 1
    /\ timers'[c] = Append(timers[c], RevertMs)
    /\ sinceSuccess'[c] = 0

\* A step in which a due revert callback of card c runs.
RevertStep(c) ==
    /\ timers[c] # <<>>
    /\ Head(timers[c]) = 0
    /\ timers'[c] = Tail(timers[c])

\* C1: a success that arrives while an earlier revert timer is pending restarts
\* the window: the flag is not cleared until RevertMs after the latest success
\* (no callback scheduled by an earlier success clears it before then).
C1_WindowRestarts ==
    [][\A c \in Cards :
        (justAdded[c] /\ sinceSuccess[c] < RevertMs) => justAdded'[c]]_vars

\* C2 as stated: whenever the product is in the cart the label is "In Cart" and
\* the button is disabled, whatever isPending and justAdded are.
C2_InCartAlwaysShown ==
    \A c \in Cards :
        alreadyInCart(c) => (renderButtonContent(c) = "In Cart" /\ AddDisabled(c))

\* C2 amended: whenever the product is in the cart the button is disabled, and
\* the label is "In Cart" unless the mutation is pending (spinner) or justAdded
\* is set ("Added").
C2_InCartDisabled ==
    \A c \in Cards :
        alreadyInCart(c) =>
            /\ AddDisabled(c)
            /\ (~isPending(c) /\ ~justAdded[c]) => renderButtonContent(c) = "In Cart"
            /\ (~isPending(c) /\ justAdded[c]) => renderButtonContent(c) = "Added"
            /\ isPending(c) => renderButtonContent(c) = "Spinner"

C2_Witness ==
    \E c \in Cards :
        /\ alreadyInCart(c) /\ justAdded[c] /\ ~isPending(c)
        /\ renderButtonContent(c) = "Added"
        /\ AddDisabled(c)

\* C3: the button issues no add-to-cart mutation while the card's mutation is
\* pending or the product is in the cart; a card never has two adds in flight.
C3_NoDuplicateAdd ==
    /\ [](\A c \in Cards : inFlight[c] <= 1)
    /\ [][\A c \in Cards :
            inFlight'[c] > inFlight[c] => (~isPending(c) /\ ~alreadyInCart(c))]_vars

C3_Witness ==
    \E c, d \in Cards :
        /\ c # d
        /\ inFlight[c] = 1 /\ AddDisabled(c)
        /\ alreadyInCart(d) /\ inFlight[d] = 0 /\ sinceSuccess[d] >= 0

\* C4: after every success the flag is true for the RevertMs that follow and
\* false afterwards, when the label is "In Cart" or "Add to Cart" by membership;
\* the flag is true only within RevertMs of a success of this card.
C4_AddedWindow ==
    \A c \in Cards :
        /\ (sinceSuccess[c] >= 0 /\ sinceSuccess[c] < RevertMs) => justAdded[c]
        /\ justAdded[c] => (sinceSuccess[c] >= 0 /\ sinceSuccess[c] <= RevertMs)
        /\ (sinceSuccess[c] > RevertMs /\ ~isPending(c)) =>
              renderButtonContent(c) = IF alreadyInCart(c) THEN "In Cart" ELSE "Add to Cart"

\* C5: the label is decided by isPending, then justAdded, then alreadyInCart,
\* and is one of the four labels.
C5_LabelPriority ==
    \A c \in Cards :
        /\ renderButtonContent(c) \in {"Spinner", "Added", "In Cart", "Add to Cart"}
        /\ isPending(c) => renderButtonContent(c) = "Spinner"
        /\ (~isPending(c) /\ justAdded[c]) => renderButtonContent(c) = "Added"
        /\ (~isPending(c) /\ ~justAdded[c] /\ alreadyInCart(c)) =>
              renderButtonContent(c) = "In Cart"
        /\ (~isPending(c) /\ ~justAdded[c] /\ ~alreadyInCart(c)) =>
              renderButtonContent(c) = "Add to Cart"

C5_Witness ==
    \E c, d \in Cards :
        /\ isPending(c) /\ justAdded[c] /\ alreadyInCart(c)
        /\ renderButtonContent(c) = "Spinner"
        /\ ~isPending(d) /\ justAdded[d] /\ alreadyInCart(d)
        /\ renderButtonContent(d) = "Added"

\* C10: a card's flag changes only in a step of its own onSuccess or of its own
\* revert callback, and a revert callback of a card runs only after a success
\* of that card.
C10_FlagIndependent ==
    [][\A c \in Cards :
        /\ (justAdded'[c] # justAdded[c]) =>
              \/ (SuccessStep(c) /\ justAdded'[c])
              \/ (RevertStep(c) /\ ~justAdded'[c])
        /\ RevertStep(c) => sinceSuccess[c] >= 0]_vars

C10_Witness ==
    \E c, d \in Cards :
        /\ c # d
        /\ justAdded[c] /\ sinceSuccess[c] = 0 /\ inFlight[d] = 1
        /\ ~justAdded[d] /\ sinceSuccess[d] > RevertMs

\* ------------------------------------------------------------------------
\* Properties of the wishlist toggle
\* ------------------------------------------------------------------------
\* C6: a run of the toggle handler happens only while no wishlist mutation of
\* the card is in flight; without a session it issues nothing; with a session
\* it issues exactly one mutation for the card's product id, a remove if the
\* product is in the wishlist snapshot and an add otherwise; and nothing else
\* puts a wishlist mutation in flight.
C6_ToggleWishlist ==
    /\ [](\A c \in Cards : Len(addMutation[c]) + Len(removeMutation[c]) <= 1)
    /\ [][\A c \in Cards :
            /\ (toggled'[c] # toggled[c]) =>
                  /\ addMutation[c] = <<>> /\ removeMutation[c] = <<>>
                  /\ IF ~session
                       THEN UNCHANGED <<addMutation, removeMutation>>
                       ELSE IF wishlist # <<>> /\ c \in wishlist[1]
                              THEN /\ removeMutation' = [removeMutation EXCEPT ![c] = <<c>>]
                                   /\ UNCHANGED addMutation
                              ELSE /\ addMutation' = [addMutation EXCEPT ![c] = <<c>>]
                                   /\ UNCHANGED removeMutation
            /\ (\/ Len(addMutation'[c]) > Len(addMutation[c])
                \/ Len(removeMutation'[c]) > Len(removeMutation[c])) =>
                  (session /\ toggled'[c] # toggled[c])]_vars

C6_Witness ==
    \E c, d \in Cards :
        /\ c # d
        /\ ~session /\ toggled[c] = 1 /\ ~WishDisabled(c)
        /\ toggled[d] = 1 /\ removeMutation[d] = <<d>> /\ WishDisabled(d)

\* ------------------------------------------------------------------------
\* Properties of Home
\* ------------------------------------------------------------------------
\* C7: once products are loaded, filteredProducts is the loaded list when the
\* filter is "All", and otherwise the subsequence, in order, of the products
\* whose category name is exactly the filter; changing the filter changes no
\* query (no fetch).
C7_Filter ==
    /\ [](productsQuery.status = "success" =>
            filteredProducts =
                IF activeCategory = "All" THEN productsQuery.data[1]
                ELSE SelectSeq(productsQuery.data[1],
                               LAMBDA p : p.categories = <<activeCategory>>))
    /\ [][activeCategory' # activeCategory =>
            UNCHANGED <<productsQuery, categoriesQuery>>]_vars

C7_Witness ==
    /\ productsQuery.status = "success"
    /\ activeCategory = "Shoes"
    /\ Len(productsQuery.data[1]) = 3
    /\ Len(filteredProducts) = 2
    /\ \E i \in 1..3 : productsQuery.data[1][i].categories = <<"shoes">>

Skeleton == Rendered("skeleton", SkeletonCount, "", <<>>)

EmptyMessage == Rendered("empty", 0, "No products found in this category.", <<>>)

GridOrEmpty ==
    IF filteredProducts # <<>> THEN Rendered("grid", 0, "", filteredProducts)
    ELSE EmptyMessage

\* C8 as stated: the product query alone decides the render path: skeleton while
\* loading, the error message when it failed, and the grid (or the "no products"
\* message) when it loaded.
C8_ProductSourceDecides ==
    /\ productsQuery.status = "pending" => renderProductGrid = Skeleton
    /\ productsQuery.status = "error" =>
          renderProductGrid = Rendered("error", 0, ProductsErrorMessage, <<>>)
    /\ productsQuery.status = "success" => renderProductGrid = GridOrEmpty

\* C8 amended: as above, except that with products loaded and the category
\* load failed the grid area shows the category error message; the grid or the
\* "no products" message is shown when the category load has not failed.
C8_RenderPaths ==
    /\ productsQuery.status = "pending" => renderProductGrid = Skeleton
    /\ productsQuery.status = "error" =>
          renderProductGrid = Rendered("error", 0, ProductsErrorMessage, <<>>)
    /\ (productsQuery.status = "success" /\ categoriesQuery.status = "error") =>
          renderProductGrid = Rendered("error", 0, CategoriesErrorMessage, <<>>)
    /\ (productsQuery.status = "success" /\ categoriesQuery.status # "error") =>
          renderProductGrid = GridOrEmpty

C8_Witness ==
    /\ productsQuery.status = "success"
    /\ productsQuery.data[1] # <<>>
    /\ categoriesQuery.status = "error"
    /\ renderProductGrid.kind = "error"
    /\ renderProductGrid.message = CategoriesErrorMessage

\* ------------------------------------------------------------------------
\* Properties of the discount
\* ------------------------------------------------------------------------
\* 100 * a / o rounded to the nearest integer, a half rounding up.
RoundedPercent(a, o) == (200 * a + o) \div (2 * o)

\* C9: hasDiscount iff original_price is present and greater than price; with a
\* discount, discountPercentage is round(100 * (original_price - price) /
\* original_price) and lies in 0..100, and without it is 0; the badge and the
\* struck-through price are shown iff hasDiscount.
C9_Discount ==
    card # <<>> =>
        LET r == card[1]
            present == product.original_price # <<>>
            o == product.original_price[1]
            greater == present /\ o > product.price
        IN  /\ r.hasDiscount <=> greater
            /\ greater =>
                  /\ r.discountPercentage = RoundedPercent(o - product.price, o)
                  /\ r.discountPercentage \in 0..100
            /\ ~greater => r.discountPercentage = 0
            /\ (r.badge # <<>> /\ r.badge[1].kind = "badge") <=> greater
            /\ (r.strike # <<>> /\ r.strike[1].kind = "strike") <=> greater
            /\ greater =>
                  /\ r.badge[1].value = r.discountPercentage
                  /\ r.strike[1].value = o

====
